---- MODULE Spec2Model ----
(***************************************************************************)
(* Model of the container bootstrap (docker_entry.py), the health probe    *)
(* (healthcheck.py) and the API entrypoint (api_main.py).                  *)
(*                                                                         *)
(* The volume is a directory holding settings.json and DouK-Downloader.db. *)
(* A file's text is a sequence of JSON tokens <<kind, text>>; json.load    *)
(* and json.dump are the parser and the printer over these tokens.         *)
(***************************************************************************)
EXTENDS Integers, Sequences, FiniteSets, TLC

VARIABLES
    pc,         \* position of the bootstrap process in docker_entry.main
    exitStatus, \* exit status of the last bootstrap process that ended (-1: none)
    volDir,     \* TRUE when /app/Volume exists
    settings,   \* settings.json: [exists, text]
    db,         \* committed content of DouK-Downloader.db
    data,       \* init_settings' local dict, insertion ordered <<key, value>> pairs
    conn,       \* init_database's connection: "none", "open", "closed"
    work,       \* the connection's view of config_data / option_data (uncommitted)
    stmt,       \* index of the next seed statement (lines 93-97)
    bootVol,    \* history: the volume when the current boot attempt started
    origVol,    \* history: the volume when the first attempt since the last
                \* completed boot or external write started
    clean,      \* history: the last boot ran to its end (the handoff, or an
                \* error of its own) and nothing has touched the volume or
                \* interrupted a boot since
    inRow,      \* history: the current boot started in such a state
    nExt,       \* external writes made so far
    nCrash,     \* interrupted boots so far
    env,        \* the container's environment: PORT, HEALTHCHECK_TIMEOUT
    probe,      \* one record per health-probe invocation
    service     \* the service process: [state, port]

vars == <<pc, exitStatus, volDir, settings, db, data, conn, work, stmt,
          bootVol, origVol, clean, inRow, nExt, nCrash, env, probe, service>>

bootVars == <<pc, exitStatus, volDir, settings, db, data, conn, work, stmt,
              bootVol, origVol, clean, inRow, nExt, nCrash>>

----------------------------------------------------------------------------
(* Bounds *)

MaxExt == 1      \* external writes to the volume in one behaviour
MaxCrash == 1    \* interrupted boots in one behaviour

----------------------------------------------------------------------------
(* JSON text and values *)

Tok(k, s) == <<k, s>>
LBRACE == Tok("p", "{")
RBRACE == Tok("p", "}")
LBRACK == Tok("p", "[")
RBRACK == Tok("p", "]")
COLON == Tok("p", ":")
COMMA == Tok("p", ",")
NEWLINE == Tok("ws", "nl")  \* newline and indentation written by indent=4

RUN_COMMAND == "run_command"
SENTINEL == <<"str", "7">>

\* A JSON value in memory: <<"str", s>>, <<"num", n>>, or <<"sur", s>>, a str
\* holding a lone surrogate (written "\ud800" on disk, token kind "esc").
IsValueTok(t) == t[1] \in {"str", "num", "esc"}
Decode(t) == IF t[1] = "esc" THEN <<"sur", t[2]>> ELSE t
Encodable(v) == v[1] # "sur"

RECURSIVE StripWs(_)
StripWs(text) ==
    IF text = <<>> THEN <<>>
    ELSE IF Head(text)[1] = "ws" THEN StripWs(Tail(text))
    ELSE <<Head(text)>> \o StripWs(Tail(text))

HasKey(d, k) == \E i \in 1..Len(d) : d[i][1] = k
DictGet(d, k) == d[CHOOSE i \in 1..Len(d) : d[i][1] = k][2]
DictKeys(d) == {d[i][1] : i \in 1..Len(d)}

\* dict.setdefault in place of the assignment: an existing value stays.
DictSet_KeepExisting(d, k, v) ==
    IF HasKey(d, k) THEN d ELSE Append(d, <<k, v>>)

\* d[k] = v on a Python dict: an existing key keeps its position.
DictSet(d, k, v) ==
    IF HasKey(d, k)
    THEN [i \in 1..Len(d) |-> IF d[i][1] = k THEN <<k, v>> ELSE d[i]]
    ELSE Append(d, <<k, v>>)

NoParse == [ok |-> FALSE, kind |-> "none", items |-> <<>>]

\* members of an object: key ":" value ("," key ":" value)*
RECURSIVE ParseMembers(_, _)
ParseMembers(body, acc) ==
    IF Len(body) < 3 THEN NoParse
    ELSE IF ~(body[1][1] = "str" /\ body[2] = COLON /\ IsValueTok(body[3]))
    THEN NoParse
    ELSE LET acc2 == DictSet(acc, body[1][2], Decode(body[3]))
         IN IF Len(body) = 3
            THEN [ok |-> TRUE, kind |-> "dict", items |-> acc2]
            ELSE IF body[4] = COMMA
            THEN ParseMembers(SubSeq(body, 5, Len(body)), acc2)
            ELSE NoParse

\* json.load: the whole text must be one JSON value.
JsonLoad(text) ==
    LET t == StripWs(text)
        n == Len(t)
    IN IF n = 0 THEN NoParse
       ELSE IF n = 1
       THEN IF IsValueTok(t[1])
            THEN [ok |-> TRUE, kind |-> "scalar", items |-> <<>>]
            ELSE NoParse
       ELSE IF t[1] = LBRACK /\ t[n] = RBRACK
       THEN IF n = 2 \/ (n = 3 /\ IsValueTok(t[2]))
            THEN [ok |-> TRUE, kind |-> "list", items |-> <<>>]
            ELSE NoParse
       ELSE IF t[1] = LBRACE /\ t[n] = RBRACE
       THEN IF n = 2
            THEN [ok |-> TRUE, kind |-> "dict", items |-> <<>>]
            ELSE ParseMembers(SubSeq(t, 2, n - 1), <<>>)
       ELSE NoParse

RECURSIVE DumpItems(_)
DumpItems(d) ==
    IF d = <<>> THEN <<>>
    ELSE <<NEWLINE, Tok("str", Head(d)[1]), COLON,
           IF Head(d)[2][1] = "sur" THEN Tok("raw", Head(d)[2][2]) ELSE Head(d)[2]>>
         \o (IF Len(d) > 1 THEN <<COMMA>> ELSE <<>>)
         \o DumpItems(Tail(d))

\* json.dump(data, f, ensure_ascii=False, indent=4): the chunks handed to f.
JsonDump(d) ==
    IF d = <<>> THEN <<LBRACE, RBRACE>>
    ELSE <<LBRACE>> \o DumpItems(d) \o <<NEWLINE, RBRACE>>

\* The chunks f accepts: a chunk holding a lone surrogate does not encode as
\* UTF-8, and f.write raises on it.
RECURSIVE WritablePrefix(_)
WritablePrefix(chunks) ==
    IF chunks = <<>> THEN <<>>
    ELSE IF Head(chunks)[1] = "raw" THEN <<>>
    ELSE <<Head(chunks)>> \o WritablePrefix(Tail(chunks))

----------------------------------------------------------------------------
(* The relational store *)

TableNames == {"config_data", "download_data", "mapping_data", "option_data"}

\* The order of the CREATE TABLE statements of the script (lines 73-88).
TableOrder == <<"config_data", "download_data", "mapping_data", "option_data">>

EmptyTable == [n \in {} |-> 0]

NoDb == [exists |-> FALSE, tables |-> {}, config |-> EmptyTable,
         option |-> EmptyTable, download |-> {}, mapping |-> {}]

NoWork == [config |-> EmptyTable, option |-> EmptyTable]

\* config_data declared without its CHECK: every value is accepted.
ConfigCheck_Missing(v) == TRUE

\* CHECK(VALUE IN (0, 1)) of config_data (line 75)
ConfigCheck(v) == v \in {0, 1}

\* OR REPLACE written where OR IGNORE is meant.
InsertOrIgnore_Overwrite(t, n, v) ==
    [m \in DOMAIN t \cup {n} |-> IF m = n THEN v ELSE t[m]]

\* INSERT OR IGNORE INTO t (NAME, VALUE) VALUES (n, v)
InsertOrIgnore(t, n, v) ==
    IF n \in DOMAIN t THEN t
    ELSE [m \in DOMAIN t \cup {n} |-> IF m = n THEN v ELSE t[m]]

\* OR IGNORE written where OR REPLACE is meant.
InsertOrReplace_Ignore(t, n, v) ==
    IF n \in DOMAIN t THEN t
    ELSE [m \in DOMAIN t \cup {n} |-> IF m = n THEN v ELSE t[m]]

\* The table is emptied before the row is written.
InsertOrReplace_Truncate(t, n, v) == [m \in {n} |-> v]

\* INSERT OR REPLACE INTO t (NAME, VALUE) VALUES (n, v)
InsertOrReplace(t, n, v) ==
    [m \in DOMAIN t \cup {n} |-> IF m = n THEN v ELSE t[m]]

LOCALE == "zh_CN"

\* The statement that seeds Logger is missing.
SeedStatements_NoLogger ==
    << [op |-> "ignore",  table |-> "config", name |-> "Record",     value |-> <<1>>],
       [op |-> "replace", table |-> "config", name |-> "Disclaimer", value |-> <<1>>],
       [op |-> "ignore",  table |-> "option", name |-> "Language",   value |-> <<LOCALE>>],
       [op |-> "replace", table |-> "option", name |-> "Language",   value |-> <<LOCALE>>] >>

\* The seed statements of lines 93-97, in order.
SeedStatements ==
    << [op |-> "ignore",  table |-> "config", name |-> "Record",     value |-> <<1>>],
       [op |-> "ignore",  table |-> "config", name |-> "Logger",     value |-> <<0>>],
       [op |-> "replace", table |-> "config", name |-> "Disclaimer", value |-> <<1>>],
       [op |-> "ignore",  table |-> "option", name |-> "Language",   value |-> <<LOCALE>>],
       [op |-> "replace", table |-> "option", name |-> "Language",   value |-> <<LOCALE>>] >>

\* cur.execute(statement) on the connection's view w
Execute(s, w) ==
    LET t == IF s.table = "config" THEN w.config ELSE w.option
        t2 == IF s.op = "ignore"
              THEN InsertOrIgnore(t, s.name, s.value[1])
              ELSE InsertOrReplace(t, s.name, s.value[1])
    IN IF s.table = "config"
       THEN [w EXCEPT !.config = t2]
       ELSE [w EXCEPT !.option = t2]

\* A script that lacks its last CREATE TABLE statement.
CreateTables_SkipLast(tables, k) == tables \cup {TableOrder[i] : i \in 1..(k - 1)}

\* The tables after the first k CREATE TABLE IF NOT EXISTS statements.
CreateTables(tables, k) == tables \cup {TableOrder[i] : i \in 1..k}

----------------------------------------------------------------------------
(* The volume *)

NoFile == [exists |-> FALSE, text |-> <<>>]
File(text) == [exists |-> TRUE, text |-> text]

Vol == [dir |-> volDir, settings |-> settings, db |-> db]

\* What init_settings reads (lines 40-49): the parsed dict, or {} when the
\* file is absent, does not parse, or is not an object.
LoadSettings(f) ==
    IF ~f.exists THEN <<>>
    ELSE LET r == JsonLoad(f.text)
         IN IF r.ok /\ r.kind = "dict" THEN r.items ELSE <<>>

AllEncodable(d) == \A i \in 1..Len(d) : Encodable(d[i][2])

----------------------------------------------------------------------------
(* Inputs: what a user or the service may leave on the volume *)

\* Settings documents a user may write, as dicts.
UserDicts ==
    { <<>>,
      << <<RUN_COMMAND, <<"str", "7">>>> >>,
      << <<RUN_COMMAND, <<"str", "5">>>> >>,
      << <<RUN_COMMAND, <<"num", "5">>>> >>,
      << <<"foo", <<"str", "bar">>>> >>,
      << <<"foo", <<"str", "bar">>>>, <<RUN_COMMAND, <<"str", "5">>>> >>,
      << <<RUN_COMMAND, <<"str", "5">>>>, <<"foo", <<"str", "bar">>>> >>,
      << <<RUN_COMMAND, <<"str", "7">>>>, <<"foo", <<"num", "5">>>> >> }

\* Texts a settings file may hold: printed objects, hand-written objects
\* (no whitespace, a repeated key, an escaped lone surrogate), values that
\* are not objects, and text that is not JSON.
SettingsTexts ==
    { JsonDump(d) : d \in UserDicts }
    \cup { <<LBRACE, Tok("str", "foo"), COLON, Tok("str", "bar"), RBRACE>>,
           <<LBRACE, Tok("str", RUN_COMMAND), COLON, Tok("str", "5"), COMMA,
             Tok("str", "foo"), COLON, Tok("str", "bar"), COMMA,
             Tok("str", RUN_COMMAND), COLON, Tok("str", "6"), RBRACE>>,
           <<LBRACE, Tok("str", "foo"), COLON, Tok("str", "bar"), COMMA,
             Tok("str", "note"), COLON, Tok("esc", "d800"), RBRACE>>,
           <<LBRACK, RBRACK>>,
           <<LBRACK, Tok("num", "5"), RBRACK>>,
           <<Tok("num", "5")>>,
           <<Tok("str", "7")>>,
           <<>>,
           <<LBRACE, Tok("str", "foo"), COLON>>,
           <<LBRACE, Tok("str", "foo"), COLON, Tok("str", "bar"), COMMA, RBRACE>>,
           <<Tok("str", "foo"), COLON, Tok("str", "bar")>> }

ConfigNames == {"Record", "Logger", "Disclaimer", "Other"}
ConfigValues == {0, 1, 2}      \* 2: a value the CHECK of config_data rejects
OptionNames == {"Language", "Other"}
OptionValues == {LOCALE, "en_US"}
RowIds == {"r1"}

\* A store the service and a user have worked with.
UserDb ==
    [exists |-> TRUE, tables |-> TableNames,
     config |-> [n \in {"Record", "Logger", "Disclaimer"} |->
                    IF n = "Logger" THEN 1 ELSE 0],
     option |-> [n \in {"Language"} |-> "en_US"],
     download |-> {"r1"}, mapping |-> {}]

----------------------------------------------------------------------------
(* The environment, URLs and the server, as the probe sees them *)

NProbes == 2     \* probe invocations in one behaviour
Probes == 1..NProbes

Unset == <<>>
NoEnv == [PORT |-> Unset, HEALTHCHECK_TIMEOUT |-> Unset]
PortValues == {Unset, <<"8080">>, <<"abc">>}
TimeoutValues == {Unset, <<"0.5">>, <<"abc">>, <<"-1">>}

\* os.getenv(name, default)
GetEnv(name, default) == IF env[name] = Unset THEN default ELSE env[name][1]

\* int(s): <<n>>, or <<>> for ValueError
IntOf(s) ==
    IF s = "5555" THEN <<5555>>
    ELSE IF s = "8080" THEN <<8080>>
    ELSE <<>>

\* float(s) in tenths of a second: <<t>>, or <<>> for ValueError
FloatOf(s) ==
    IF s = "2" THEN <<20>>
    ELSE IF s = "0.5" THEN <<5>>
    ELSE IF s = "-1" THEN <<-10>>
    ELSE <<>>

DEFAULT_TIMEOUT == 20   \* timeout = 2.0, in tenths

\* A URL is its sequence of parts: scheme ":" "//" host ":" port path.
HealthUrl(port) == <<"http", ":", "//", "localhost", ":", port, "/health">>

\* The scheme Request finds (urllib.parse._splittype): a leading run of
\* characters other than "/" and ":" that a ":" follows; <<>> when none.
SchemeWords == {"http", "bogus", "localhost"}
SplitType(url) ==
    IF Len(url) >= 2 /\ url[1] \in SchemeWords /\ url[2] = ":"
    THEN <<url[1]>>
    ELSE <<>>

\* URLs a caller of check may pass.
CheckUrls ==
    { HealthUrl("5555"),
      <<"http", ":", "//", "nohost.invalid", ":", "5555", "/health">>,
      <<"localhost", ":", "5555", "/health">>,
      <<"bogus", ":", "//", "x">>,
      <<"/health">>,
      <<"foo">>,
      <<>> }
CheckTimeouts == {20, 0, -10}

Paths == {"/health", "/ok"}
Locations == {"/ok"}   \* where the server may redirect a GET to

NoResp == [kind |-> "none", code |-> 0, what |-> ""]
Status(c) == [kind |-> "status", code |-> c, what |-> ""]
Redirect(c, loc) == [kind |-> "status", code |-> c, what |-> loc]
NetError(e) == [kind |-> "error", code |-> 0, what |-> e]

RedirectCodes == {301, 302, 303, 307, 308}

\* What a listening server may answer to one GET; "" is a redirect
\* without a Location header.
ServerAnswers ==
    {Status(c) : c \in {200, 204, 404, 500}}
    \cup {Redirect(302, loc) : loc \in Locations \cup {""}}
    \cup {NetError("timeout")}

NoService == [state |-> "none", port |-> 0]

\* The outcomes of one GET to host:port.
Answers(host, port) ==
    IF host # "localhost" THEN {NetError("dns")}
    ELSE IF service.state = "running" /\ service.port = port
    THEN ServerAnswers
    ELSE {NetError("refused")}

max_repeats == 4          \* urllib.request.HTTPRedirectHandler
max_redirections == 10

IdleProbe ==
    [pc |-> "idle", via |-> "", url |-> <<>>, timeout |-> 0, path |-> "",
     visited |-> [q \in Paths |-> 0], first |-> NoResp,
     requests |-> 0, code |-> -1, raised |-> FALSE]

----------------------------------------------------------------------------
(* docker_entry.py: the bootstrap process *)

Running == {"ensure_volume", "init_settings", "settings_open", "settings_dump",
            "db_connect", "db_script", "db_seed", "db_commit", "db_close",
            "handoff"}

Init ==
    /\ pc = "ensure_volume"
    /\ exitStatus = -1
    /\ volDir \in BOOLEAN
    /\ settings \in (IF volDir THEN {NoFile} \cup {File(t) : t \in SettingsTexts}
                     ELSE {NoFile})
    /\ db \in (IF volDir THEN {NoDb, UserDb} ELSE {NoDb})
    /\ data = <<>>
    /\ conn = "none"
    /\ work = NoWork
    /\ stmt = 0
    /\ bootVol = <<[dir |-> volDir, settings |-> settings, db |-> db]>>
    /\ origVol = bootVol
    /\ clean = FALSE
    /\ inRow = FALSE
    /\ nExt = 0
    /\ nCrash = 0
    /\ env = NoEnv
    /\ probe = [p \in Probes |-> IdleProbe]
    /\ service = NoService

\* ensure_volume (lines 24-26): mkdir(parents=True, exist_ok=True)
ensure_volume ==
    /\ pc = "ensure_volume"
    /\ volDir' = TRUE
    /\ pc' = "init_settings"
    /\ UNCHANGED <<exitStatus, settings, db, data, conn, work, stmt, bootVol,
                   origVol, clean, inRow, nExt, nCrash, env, probe, service>>

\* init_settings, lines 38-52: load the document, force run_command
init_settings_load ==
    /\ pc = "init_settings"
    /\ data' = DictSet(LoadSettings(settings), RUN_COMMAND, SENTINEL)
    /\ pc' = "settings_open"
    /\ UNCHANGED <<exitStatus, volDir, settings, db, conn, work, stmt, bootVol,
                   origVol, clean, inRow, nExt, nCrash, env, probe, service>>

\* init_settings, line 54: open("w") creates or truncates the file
init_settings_open ==
    /\ pc = "settings_open"
    /\ settings' = File(<<>>)
    /\ pc' = "settings_dump"
    /\ UNCHANGED <<exitStatus, volDir, db, data, conn, work, stmt, bootVol,
                   origVol, clean, inRow, nExt, nCrash, env, probe, service>>

\* init_settings, line 55: json.dump and the close of the file.  A chunk
\* that does not encode raises out of init_settings and main (pc "raised"):
\* the process ends with status 1 and the file keeps the chunks written
\* before it.
init_settings_dump ==
    /\ pc = "settings_dump"
    /\ settings' = File(WritablePrefix(JsonDump(data)))
    /\ data' = <<>>
    /\ IF AllEncodable(data)
       THEN /\ pc' = "db_connect"
            /\ UNCHANGED <<exitStatus, clean>>
       ELSE /\ pc' = "raised"
            /\ exitStatus' = 1
            /\ clean' = TRUE
    /\ UNCHANGED <<volDir, db, conn, work, stmt, bootVol, origVol, inRow,
                   nExt, nCrash, env, probe, service>>

\* init_database, lines 67-69: sqlite3.connect and the cursor
init_database_connect ==
    /\ pc = "db_connect"
    /\ conn' = "open"
    /\ work' = [config |-> db.config, option |-> db.option]
    /\ pc' = "db_script"
    /\ UNCHANGED <<exitStatus, volDir, settings, db, data, stmt, bootVol,
                   origVol, clean, inRow, nExt, nCrash, env, probe, service>>

\* init_database, lines 71-90: executescript runs the four CREATE TABLE IF
\* NOT EXISTS statements, each committed as it runs
init_database_script ==
    /\ pc = "db_script"
    /\ db' = [db EXCEPT !.exists = TRUE, !.tables = CreateTables(@, 4)]
    /\ stmt' = 1
    /\ pc' = "db_seed"
    /\ UNCHANGED <<exitStatus, volDir, settings, data, conn, work, bootVol,
                   origVol, clean, inRow, nExt, nCrash, env, probe, service>>

\* The connection is in autocommit mode: each statement is committed as it
\* runs.
init_database_execute_Autocommit ==
    /\ pc = "db_seed"
    /\ work' = Execute(SeedStatements[stmt], work)
    /\ db' = [db EXCEPT !.config = work'.config, !.option = work'.option]
    /\ IF stmt = Len(SeedStatements)
       THEN stmt' = 0 /\ pc' = "db_commit"
       ELSE stmt' = stmt + 1 /\ pc' = pc
    /\ UNCHANGED <<exitStatus, volDir, settings, data, conn, bootVol,
                   origVol, clean, inRow, nExt, nCrash, env, probe, service>>

\* init_database, lines 93-97: one cur.execute, inside the open transaction
init_database_execute ==
    /\ pc = "db_seed"
    /\ work' = Execute(SeedStatements[stmt], work)
    /\ IF stmt = Len(SeedStatements)
       THEN stmt' = 0 /\ pc' = "db_commit"
       ELSE stmt' = stmt + 1 /\ pc' = pc
    /\ UNCHANGED <<exitStatus, volDir, settings, db, data, conn, bootVol,
                   origVol, clean, inRow, nExt, nCrash, env, probe, service>>

\* conn.commit() is missing: close() drops the open transaction.
init_database_commit_Missing ==
    /\ pc = "db_commit"
    /\ pc' = "db_close"
    /\ UNCHANGED <<exitStatus, volDir, settings, db, data, conn, work, stmt,
                   bootVol, origVol, clean, inRow, nExt, nCrash, env, probe, service>>

\* init_database, line 99: conn.commit()
init_database_commit ==
    /\ pc = "db_commit"
    /\ db' = [db EXCEPT !.config = work.config, !.option = work.option]
    /\ pc' = "db_close"
    /\ UNCHANGED <<exitStatus, volDir, settings, data, conn, work, stmt,
                   bootVol, origVol, clean, inRow, nExt, nCrash, env, probe, service>>

\* init_database, line 100: conn.close()
init_database_close ==
    /\ pc = "db_close"
    /\ conn' = "closed"
    /\ work' = NoWork
    /\ pc' = "handoff"
    /\ UNCHANGED <<exitStatus, volDir, settings, db, data, stmt, bootVol,
                   origVol, clean, inRow, nExt, nCrash, env, probe, service>>

\* main, line 114: os.execvp replaces the bootstrap with the service
handoff ==
    /\ pc = "handoff"
    /\ pc' = "service"
    /\ conn' = "none"
    /\ clean' = TRUE
    /\ UNCHANGED <<exitStatus, volDir, settings, db, data, work, stmt, bootVol,
                   origVol, inRow, nExt, nCrash, env, probe, service>>

\* What the volume may hold when the process dies at pc: a write in
\* progress leaves any prefix of its chunks, the script any prefix of its
\* statements, and the open transaction is rolled back.
InterruptedSettings ==
    IF pc = "settings_dump"
    THEN LET full == JsonDump(data)
             w == WritablePrefix(full)
         IN {File(SubSeq(w, 1, n)) : n \in 0..(IF w = full THEN Len(w) - 1 ELSE Len(w))}
    ELSE {settings}

InterruptedDb ==
    IF pc = "db_script"
    THEN {[db EXCEPT !.exists = (k > 0) \/ @, !.tables = CreateTables(@, k)] : k \in 0..3}
    ELSE {db}

Interrupt(to, status) ==
    /\ nCrash < MaxCrash
    /\ nCrash' = nCrash + 1
    /\ settings' \in InterruptedSettings
    /\ db' \in InterruptedDb
    /\ pc' = to
    /\ exitStatus' = status
    /\ data' = <<>>
    /\ conn' = "none"
    /\ work' = NoWork
    /\ stmt' = 0
    /\ clean' = FALSE
    /\ UNCHANGED <<volDir, bootVol, origVol, inRow, nExt, env, probe, service>>

\* The process is killed, or the machine stops, at any point of the boot.
Crash ==
    /\ pc \in Running
    /\ Interrupt("crashed", 137)

\* A step raises (mkdir, open, write, connect, a statement, commit, execvp):
\* nothing in main catches it, and the interpreter exits with status 1.
Fallible == {"ensure_volume", "settings_open", "settings_dump", "db_connect",
             "db_script", "db_seed", "db_commit", "handoff"}

\* The error is caught and the step run again.
Fail_Retry ==
    /\ pc \in Fallible
    /\ nCrash < MaxCrash
    /\ nCrash' = nCrash + 1
    /\ UNCHANGED <<pc, exitStatus, volDir, settings, db, data, conn, work, stmt,
                   bootVol, origVol, clean, inRow, nExt, env, probe, service>>

Fail ==
    /\ pc \in Fallible
    /\ Interrupt("failed", 1)

\* The orchestrator starts the container again.
Restart ==
    /\ pc \in {"raised", "failed", "crashed", "stopped"}
    /\ pc' = "ensure_volume"
    /\ bootVol' = <<Vol>>
    /\ origVol' = IF origVol = <<>> THEN <<Vol>> ELSE origVol
    /\ inRow' = clean
    /\ UNCHANGED <<exitStatus, volDir, settings, db, data, conn, work, stmt,
                   clean, nExt, nCrash, env, probe, service>>

\* The service ends and the container stops.
ServiceStop ==
    /\ pc = "service"
    /\ pc' = "stopped"
    /\ origVol' = <<>>
    /\ service' = NoService
    /\ UNCHANGED <<exitStatus, volDir, settings, db, data, conn, work, stmt,
                   bootVol, clean, inRow, nExt, nCrash, env, probe>>

----------------------------------------------------------------------------
(* api_main.py: the service process *)

SERVER_PORT == 5555

\* start_api_only, lines 39-41: int(os.getenv("PORT", SERVER_PORT)); a
\* value int() rejects raises ValueError and the service ends.
start_api_only ==
    /\ pc = "service"
    /\ service.state = "none"
    /\ LET port == IF env.PORT = Unset THEN <<SERVER_PORT>> ELSE IntOf(env.PORT[1])
       IN service' = IF port = <<>>
                     THEN [state |-> "failed", port |-> 0]
                     ELSE [state |-> "running", port |-> port[1]]
    /\ UNCHANGED <<bootVars, env, probe>>

----------------------------------------------------------------------------
(* Writes by the user or the service between two boots *)

External ==
    /\ pc \in {"service", "stopped"}
    /\ nExt < MaxExt
    /\ nExt' = nExt + 1
    /\ clean' = FALSE
    /\ origVol' = <<>>
    /\ UNCHANGED <<pc, exitStatus, volDir, data, conn, work, stmt, bootVol,
                   inRow, nCrash, env, probe, service>>

ExtWriteSettings ==
    /\ External
    /\ \E t \in SettingsTexts : settings' = File(t)
    /\ UNCHANGED db

ExtDeleteSettings ==
    /\ External
    /\ settings.exists
    /\ settings' = NoFile
    /\ UNCHANGED db

\* INSERT OR REPLACE on config_data: the CHECK rejects a value outside {0, 1}
ExtSetConfig ==
    /\ External
    /\ "config_data" \in db.tables
    /\ \E n \in ConfigNames, v \in ConfigValues :
          db' = IF ConfigCheck(v)
                THEN [db EXCEPT !.config = InsertOrReplace(@, n, v)]
                ELSE db
    /\ UNCHANGED settings

ExtSetOption ==
    /\ External
    /\ "option_data" \in db.tables
    /\ \E n \in OptionNames, v \in OptionValues :
          db' = [db EXCEPT !.option = InsertOrReplace(@, n, v)]
    /\ UNCHANGED settings

\* DELETE FROM config_data / option_data WHERE NAME = n
ExtDeleteRow ==
    /\ External
    /\ \/ \E n \in DOMAIN db.config :
             db' = [db EXCEPT !.config = [m \in DOMAIN @ \ {n} |-> @[m]]]
       \/ \E n \in DOMAIN db.option :
             db' = [db EXCEPT !.option = [m \in DOMAIN @ \ {n} |-> @[m]]]
    /\ UNCHANGED settings

\* The service records a download or a mapping.
ExtAddRecord ==
    /\ External
    /\ \E id \in RowIds :
          \/ "download_data" \in db.tables
             /\ db' = [db EXCEPT !.download = @ \cup {id}]
          \/ "mapping_data" \in db.tables
             /\ db' = [db EXCEPT !.mapping = @ \cup {id}]
    /\ UNCHANGED settings

Next ==
    \/ ensure_volume
    \/ init_settings_load
    \/ init_settings_open
    \/ init_settings_dump
    \/ init_database_connect
    \/ init_database_script
    \/ init_database_execute
    \/ init_database_commit
    \/ init_database_close
    \/ handoff
    \/ start_api_only
    \/ Crash
    \/ Fail
    \/ Restart
    \/ ServiceStop
    \/ ExtWriteSettings
    \/ ExtDeleteSettings
    \/ ExtSetConfig
    \/ ExtSetOption
    \/ ExtDeleteRow
    \/ ExtAddRecord

Spec == Init /\ [][Next]_vars

----------------------------------------------------------------------------
(* healthcheck.py: the probe processes *)

\* float(timeout_env) outside any try: a value float() rejects ends the
\* probe with a traceback.
healthcheck_main_NoFallback(p) ==
    /\ probe[p].pc = "idle"
    /\ LET port == GetEnv("PORT", "5555")
           timeout_env == GetEnv("HEALTHCHECK_TIMEOUT", "2")
       IN probe' = IF FloatOf(timeout_env) = <<>>
                   THEN [probe EXCEPT ![p].pc = "exited", ![p].via = "main",
                                      ![p].code = 1, ![p].raised = TRUE]
                   ELSE [probe EXCEPT ![p].pc = "check", ![p].via = "main",
                                      ![p].url = HealthUrl(port),
                                      ![p].timeout = FloatOf(timeout_env)[1]]
    /\ UNCHANGED <<bootVars, env, service>>

\* A lock file lets one probe run at a time: a probe that finds another one
\* running exits 1 without sending its request.
healthcheck_main_Exclusive(p) ==
    /\ probe[p].pc = "idle"
    /\ LET port == GetEnv("PORT", "5555")
           timeout_env == GetEnv("HEALTHCHECK_TIMEOUT", "2")
           timeout == IF FloatOf(timeout_env) = <<>> THEN DEFAULT_TIMEOUT
                      ELSE FloatOf(timeout_env)[1]
       IN probe' = IF \E q \in Probes \ {p} : probe[q].pc \notin {"idle", "exited"}
                   THEN [probe EXCEPT ![p].pc = "exited", ![p].via = "main",
                                      ![p].url = HealthUrl(port),
                                      ![p].timeout = timeout, ![p].code = 1]
                   ELSE [probe EXCEPT ![p].pc = "check", ![p].via = "main",
                                      ![p].url = HealthUrl(port),
                                      ![p].timeout = timeout]
    /\ UNCHANGED <<bootVars, env, service>>

\* main, lines 48-54: the URL and the timeout the probe hands to check
healthcheck_main(p) ==
    /\ probe[p].pc = "idle"
    /\ LET port == GetEnv("PORT", "5555")
           timeout_env == GetEnv("HEALTHCHECK_TIMEOUT", "2")
           timeout == IF FloatOf(timeout_env) = <<>> THEN DEFAULT_TIMEOUT
                      ELSE FloatOf(timeout_env)[1]
       IN probe' = [probe EXCEPT ![p].pc = "check", ![p].via = "main",
                                 ![p].url = HealthUrl(port),
                                 ![p].timeout = timeout]
    /\ UNCHANGED <<bootVars, env, service>>

\* check, line 30: Request(url) raises ValueError on a URL without a scheme.
\* The statement is outside the try: the error leaves check, and in main it
\* ends the interpreter with a traceback and status 1.
check_request(p) ==
    /\ probe[p].pc = "check"
    /\ probe' =
         IF SplitType(probe[p].url) = <<>>
         THEN IF probe[p].via = "main"
              THEN [probe EXCEPT ![p].pc = "exited", ![p].code = 1,
                                 ![p].raised = TRUE]
              ELSE [probe EXCEPT ![p].pc = "raised", ![p].raised = TRUE]
         ELSE [probe EXCEPT ![p].pc = "urlopen",
                            ![p].path = IF Len(probe[p].url) = 7
                                        THEN probe[p].url[7] ELSE ""]
    /\ UNCHANGED <<bootVars, env, service>>

Verdict(v) == IF v = 0 THEN "healthy" ELSE "unhealthy"

\* The port http.client connects to; <<>> for a port that is not a number.
PortOf(url) == IF url[6] = "" THEN <<80>> ELSE IntOf(url[6])

\* urlopen cannot send a request: unknown scheme, a timeout the socket
\* rejects, a port that is not a number.
CannotSend(pr) ==
    \/ SplitType(pr.url)[1] # "http"
    \/ pr.timeout <= 0
    \/ PortOf(pr.url) = <<>>

\* check, lines 31-36: one exchange of urlopen, and its handling.  The
\* default opener follows a redirect that carries a Location (at most
\* max_repeats times to one URL); every other status outside 2xx raises
\* HTTPError; every exception gives 1; a 2xx status gives 0 only if 200.
check_urlopen(p) ==
    /\ probe[p].pc = "urlopen"
    /\ LET pr == probe[p]
       IN IF CannotSend(pr)
          THEN probe' = [probe EXCEPT ![p].pc = Verdict(1)]
          ELSE \E r \in Answers(pr.url[4], PortOf(pr.url)[1]) :
                 LET seen == [pr EXCEPT !.requests = @ + 1,
                                        !.first = IF pr.requests = 0 THEN r ELSE @]
                 IN probe' = [probe EXCEPT ![p] =
                      IF r.kind = "error" THEN [seen EXCEPT !.pc = Verdict(1)]
                      ELSE IF r.code \in 200..299
                      THEN [seen EXCEPT !.pc = Verdict(IF r.code = 200 THEN 0 ELSE 1)]
                      ELSE IF r.code \in RedirectCodes /\ r.what # ""
                      THEN IF \/ seen.visited[r.what] >= max_repeats
                              \/ Cardinality({q \in Paths : seen.visited[q] > 0})
                                   >= max_redirections
                           THEN [seen EXCEPT !.pc = Verdict(1)]
                           ELSE [seen EXCEPT !.visited[r.what] = @ + 1,
                                             !.path = r.what]
                      ELSE [seen EXCEPT !.pc = Verdict(1)]]
    /\ UNCHANGED <<bootVars, env, service>>

\* main, line 55: sys.exit(check(url, timeout))
healthcheck_exit(p) ==
    /\ probe[p].pc \in {"healthy", "unhealthy"}
    /\ probe[p].via = "main"
    /\ probe' = [probe EXCEPT ![p].pc = "exited",
                              ![p].code = IF probe[p].pc = "healthy" THEN 0 ELSE 1]
    /\ UNCHANGED <<bootVars, env, service>>

\* A fresh volume after one boot, the service handed off to.
BootedSettings == File(JsonDump(<< <<RUN_COMMAND, SENTINEL>> >>))
BootedDb ==
    [exists |-> TRUE, tables |-> TableNames,
     config |-> [n \in {"Record", "Logger", "Disclaimer"} |->
                    IF n = "Logger" THEN 0 ELSE 1],
     option |-> [n \in {"Language"} |-> LOCALE],
     download |-> {}, mapping |-> {}]

ProbeInit ==
    /\ pc = "service"
    /\ exitStatus = -1
    /\ volDir = TRUE
    /\ settings = BootedSettings
    /\ db = BootedDb
    /\ data = <<>>
    /\ conn = "none"
    /\ work = NoWork
    /\ stmt = 0
    /\ bootVol = <<>>
    /\ origVol = <<>>
    /\ clean = TRUE
    /\ inRow = FALSE
    /\ nExt = 0
    /\ nCrash = 0
    /\ env \in [PORT : PortValues, HEALTHCHECK_TIMEOUT : TimeoutValues]
    /\ probe = [p \in Probes |-> IdleProbe]
    /\ service = NoService

ProbeMain == \E p \in Probes : healthcheck_main(p)
ProbeRequest == \E p \in Probes : check_request(p)
ProbeUrlopen == \E p \in Probes : check_urlopen(p)
ProbeExit == \E p \in Probes : healthcheck_exit(p)

ProbeNext ==
    \/ start_api_only
    \/ ProbeMain
    \/ ProbeRequest
    \/ ProbeUrlopen
    \/ ProbeExit

ProbeSpec == ProbeInit /\ [][ProbeNext]_vars

\* A probe process that has been started runs to its end: the interpreter
\* executes the next statement, and urlopen returns or raises when the
\* server answers, the connection fails or the timeout expires.
ProbeFairness ==
    \A p \in Probes :
        /\ WF_vars(healthcheck_main(p))
        /\ WF_vars(check_request(p))
        /\ WF_vars(check_urlopen(p))
        /\ WF_vars(healthcheck_exit(p))

ProbeFairSpec == ProbeInit /\ [][ProbeNext]_vars /\ ProbeFairness

\* One container start with the orchestrator's probes running from the
\* first step of the bootstrap on.
ConcurrentInit ==
    /\ pc = "ensure_volume"
    /\ exitStatus = -1
    /\ volDir \in BOOLEAN
    /\ settings \in (IF volDir
                     THEN {NoFile, File(JsonDump(<< <<"foo", <<"str", "bar">>>> >>))}
                     ELSE {NoFile})
    /\ db \in (IF volDir THEN {NoDb, UserDb} ELSE {NoDb})
    /\ data = <<>>
    /\ conn = "none"
    /\ work = NoWork
    /\ stmt = 0
    /\ bootVol = <<[dir |-> volDir, settings |-> settings, db |-> db]>>
    /\ origVol = bootVol
    /\ clean = FALSE
    /\ inRow = FALSE
    /\ nExt = 0
    /\ nCrash = 0
    /\ env \in [PORT : {Unset}, HEALTHCHECK_TIMEOUT : {Unset, <<"-1">>}]
    /\ probe = [p \in Probes |-> IdleProbe]
    /\ service = NoService

ConcurrentNext ==
    \/ ensure_volume
    \/ init_settings_load
    \/ init_settings_open
    \/ init_settings_dump
    \/ init_database_connect
    \/ init_database_script
    \/ init_database_execute
    \/ init_database_commit
    \/ init_database_close
    \/ handoff
    \/ start_api_only
    \/ ProbeMain
    \/ ProbeRequest
    \/ ProbeUrlopen
    \/ ProbeExit

ConcurrentSpec == ConcurrentInit /\ [][ConcurrentNext]_vars

\* check(url, timeout) called directly, on any URL and timeout.
CheckInit ==
    /\ pc = "service"
    /\ exitStatus = -1
    /\ volDir = TRUE
    /\ settings = BootedSettings
    /\ db = BootedDb
    /\ data = <<>>
    /\ conn = "none"
    /\ work = NoWork
    /\ stmt = 0
    /\ bootVol = <<>>
    /\ origVol = <<>>
    /\ clean = TRUE
    /\ inRow = FALSE
    /\ nExt = 0
    /\ nCrash = 0
    /\ env = NoEnv
    /\ \E url \in CheckUrls, timeout \in CheckTimeouts :
          probe = [p \in Probes |->
                     IF p = 1
                     THEN [IdleProbe EXCEPT !.pc = "check", !.via = "call",
                                            !.url = url, !.timeout = timeout]
                     ELSE IdleProbe]
    /\ service \in {NoService, [state |-> "running", port |-> SERVER_PORT]}

CheckNext ==
    \/ ProbeRequest
    \/ ProbeUrlopen

CheckSpec == CheckInit /\ [][CheckNext]_vars

----------------------------------------------------------------------------
(* Properties *)

\* Positions of main after init_settings returned, and after init_database
\* committed.
AfterSettings == {"db_connect", "db_script", "db_seed", "db_commit",
                  "db_close", "handoff"}
AfterDatabase == {"db_close", "handoff"}

\* The settings document before the current boot, and now.
DocBefore == LoadSettings(bootVol[1].settings)
DocNow == LoadSettings(settings)

RECURSIVE SeedFrom(_, _)
SeedFrom(i, w) ==
    IF i > Len(SeedStatements) THEN w
    ELSE SeedFrom(i + 1, Execute(SeedStatements[i], w))

\* The volume an uninterrupted boot leaves when it starts from v.
BootResult(v) ==
    LET w == SeedFrom(1, [config |-> v.db.config, option |-> v.db.option])
    IN [dir |-> TRUE,
        settings |-> File(JsonDump(DictSet(LoadSettings(v.settings),
                                           RUN_COMMAND, SENTINEL))),
        db |-> [v.db EXCEPT !.exists = TRUE, !.tables = TableNames,
                            !.config = w.config, !.option = w.option]]

\* C1: a boot that starts where the previous boot ended (no external write,
\* no interruption in between) ends, by handoff or by its own error, in the
\* volume it started from: N boots in a row leave what one boot leaves.
C1_BootIdempotent ==
    (pc \in {"handoff", "raised"} /\ inRow) => Vol = bootVol[1]

\* C2: when init_settings has ended, by return or by its own error, every
\* key other than run_command of the document it found is still in the
\* document with the same value.
C2_KeysPreserved ==
    pc \in AfterSettings \cup {"raised"} =>
        \A k \in DictKeys(DocBefore) \ {RUN_COMMAND} :
            HasKey(DocNow, k) /\ DictGet(DocNow, k) = DictGet(DocBefore, k)

\* C3: after every completed init_settings, settings.json is an object whose
\* run_command is the sentinel "7", whatever the file held before.
C3_RunCommandForced ==
    pc \in AfterSettings =>
        LET r == JsonLoad(settings.text)
        IN /\ settings.exists
           /\ r.ok
           /\ r.kind = "dict"
           /\ HasKey(r.items, RUN_COMMAND)
           /\ DictGet(r.items, RUN_COMMAND) = SENTINEL

\* a user wrote another run_command between two boots, and init_settings
\* has completed since
C3_Witness ==
    /\ pc = "db_connect"
    /\ nExt > 0
    /\ HasKey(DocBefore, RUN_COMMAND)
    /\ DictGet(DocBefore, RUN_COMMAND) = <<"str", "5">>

DefaultOf(n) == IF n = "Record" THEN 1 ELSE 0

\* C4: after init_database committed, Record and Logger hold the value they
\* had before the boot when the row existed, and their default (1, 0) when
\* it did not.
C4_DefaultIfAbsent ==
    pc \in AfterDatabase =>
        \A n \in {"Record", "Logger"} :
            /\ n \in DOMAIN db.config
            /\ db.config[n] = IF n \in DOMAIN bootVol[1].db.config
                              THEN bootVol[1].db.config[n]
                              ELSE DefaultOf(n)

\* the second boot in a row over rows set to the non-default values
C4_Witness ==
    /\ pc = "handoff"
    /\ inRow
    /\ "Record" \in DOMAIN bootVol[1].db.config
    /\ bootVol[1].db.config["Record"] = 0
    /\ db.config["Record"] = 0
    /\ db.config["Logger"] = 1

\* C5: after init_database committed, Disclaimer reads 1 and option_data is
\* the table before the boot with Language overwritten by 'zh_CN': the
\* pair OR IGNORE, OR REPLACE acts as one unconditional overwrite.
C5_ForcedRows ==
    pc \in AfterDatabase =>
        /\ "Disclaimer" \in DOMAIN db.config
        /\ db.config["Disclaimer"] = 1
        /\ db.option = [n \in DOMAIN bootVol[1].db.option \cup {"Language"} |->
                          IF n = "Language" THEN LOCALE
                          ELSE bootVol[1].db.option[n]]

\* both forced rows were set to other values before the boot
C5_Witness ==
    /\ pc = "handoff"
    /\ "Disclaimer" \in DOMAIN bootVol[1].db.config
    /\ bootVol[1].db.config["Disclaimer"] = 0
    /\ "Language" \in DOMAIN bootVol[1].db.option
    /\ bootVol[1].db.option["Language"] = "en_US"

\* C6: init_settings never ends the boot with an error of its own, whatever
\* the file held, and after it completed the file parses as a JSON object.
C6_NeverAborts ==
    /\ pc # "raised"
    /\ pc \in AfterSettings => JsonLoad(settings.text).kind = "dict"

Reports0(pr) == pr.pc = "healthy" \/ (pr.pc = "exited" /\ pr.code = 0)

\* C7: the probe reports 0 only if the response to its request had status
\* 200; every other status, a redirect included, gives 1.
C7_HealthyOnly200 ==
    \A p \in Probes : Reports0(probe[p]) => probe[p].first = Status(200)

\* C8: a boot completed after interrupted attempts leaves the volume an
\* uninterrupted boot from the state before the first attempt would leave.
C8_CrashSafe ==
    (pc = "handoff" /\ AllEncodable(LoadSettings(origVol[1].settings)))
        => Vol = BootResult(origVol[1])

HandoffReady ==
    /\ volDir
    /\ settings.exists
    /\ JsonLoad(settings.text).kind = "dict"
    /\ HasKey(DocNow, RUN_COMMAND)
    /\ DictGet(DocNow, RUN_COMMAND) = SENTINEL
    /\ db.exists
    /\ db.tables = TableNames
    /\ {"Record", "Logger", "Disclaimer"} \subseteq DOMAIN db.config
    /\ db.config["Disclaimer"] = 1
    /\ "Language" \in DOMAIN db.option
    /\ db.option["Language"] = LOCALE
    /\ conn = "closed"
    /\ work = NoWork

\* The steps of main in order, the ways a process ends, and the restart.
StepOrder ==
    {<<"ensure_volume", "init_settings">>, <<"init_settings", "settings_open">>,
     <<"settings_open", "settings_dump">>, <<"settings_dump", "db_connect">>,
     <<"db_connect", "db_script">>, <<"db_script", "db_seed">>,
     <<"db_seed", "db_commit">>, <<"db_commit", "db_close">>,
     <<"db_close", "handoff">>, <<"handoff", "service">>,
     <<"settings_dump", "raised">>, <<"service", "stopped">>}
    \cup (Running \X {"crashed"})
    \cup (Fallible \X {"failed"})
    \cup ({"raised", "failed", "crashed", "stopped"} \X {"ensure_volume"})

\* C9: main runs ensure_volume, init_settings, init_database, execvp in that
\* order; at the handoff the directory exists, settings.json is an object
\* with run_command = "7", the four tables and the seed rows are committed
\* and the connection is closed; the service runs only after the handoff and
\* no bootstrap step follows it in that container start.
C9_OrderedHandoff ==
    /\ [](pc = "handoff" => HandoffReady)
    /\ [](service.state = "running" => pc = "service")
    /\ [][pc' # pc => <<pc, pc'>> \in StepOrder]_vars

\* a boot of a volume that did not exist has reached the handoff
C9_Witness ==
    /\ pc = "handoff"
    /\ ~bootVol[1].dir

\* C10: no exception leaves check, for any URL and any timeout.
C10_CheckNeverRaises ==
    \A p \in Probes : probe[p].pc # "raised" /\ ~probe[p].raised

\* C11: a step of the boot that fails ends the process with a non-zero
\* status; the process that failed has started no service and holds no
\* connection, and nothing follows in that container start: the next step is
\* the orchestrator's restart, which finds the volume as the failure left it.
C11_FailureAborts ==
    /\ [][nCrash' # nCrash => pc' \in {"failed", "crashed"} /\ exitStatus' # 0]_vars
    /\ [](pc \in {"failed", "raised"} =>
            exitStatus # 0 /\ service.state = "none" /\ conn = "none")
    /\ [][(pc \in {"failed", "raised"}) =>
            (pc' = "ensure_volume" /\ UNCHANGED <<volDir, settings, db>>)]_vars

\* the script failed after its first CREATE TABLE on a fresh volume
C11_Witness ==
    /\ pc = "failed"
    /\ exitStatus = 1
    /\ db.tables = {"config_data"}
    /\ settings = BootedSettings

\* C12: after init_database committed, whatever the store held before the
\* boot, config_data has the rows Record and Logger and the row Disclaimer
\* with value 1, option_data has the row Language with 'zh_CN', and a Record
\* or Logger row that the boot did not find holds its default.
C12_SeedRowsPresent ==
    pc \in AfterDatabase =>
        /\ {"Record", "Logger", "Disclaimer"} \subseteq DOMAIN db.config
        /\ db.config["Disclaimer"] = 1
        /\ "Language" \in DOMAIN db.option
        /\ db.option["Language"] = LOCALE
        /\ \A n \in {"Record", "Logger"} \ DOMAIN bootVol[1].db.config :
              db.config[n] = DefaultOf(n)

\* a boot of a store whose Logger row was deleted after an earlier boot
C12_Witness ==
    /\ pc = "handoff"
    /\ nExt > 0
    /\ "config_data" \in bootVol[1].db.tables
    /\ "Logger" \notin DOMAIN bootVol[1].db.config
    /\ "Record" \in DOMAIN bootVol[1].db.config

\* The boot in progress found neither a settings file nor a store.
FreshBoot ==
    /\ bootVol[1].settings = NoFile
    /\ bootVol[1].db = NoDb

\* C13: one boot of a fresh volume ends with settings.json holding exactly
\* {"run_command": "7"}, with config_data holding one row per seeded name
\* (Disclaimer 1, Record 1, Logger 0) and nothing else, with option_data
\* holding the one row Language 'zh_CN', and with download_data and
\* mapping_data created and empty.
C13_FreshVolume ==
    (pc = "handoff" /\ FreshBoot) =>
        /\ volDir
        /\ settings.exists
        /\ JsonLoad(settings.text) =
             [ok |-> TRUE, kind |-> "dict", items |-> << <<RUN_COMMAND, SENTINEL>> >>]
        /\ db.exists
        /\ db.tables = TableNames
        /\ DOMAIN db.config = {"Record", "Logger", "Disclaimer"}
        /\ db.config["Disclaimer"] = 1
        /\ db.config["Record"] = 1
        /\ db.config["Logger"] = 0
        /\ DOMAIN db.option = {"Language"}
        /\ db.option["Language"] = LOCALE
        /\ db.download = {}
        /\ db.mapping = {}

\* the first boot of a container whose volume directory did not exist
C13_Witness ==
    /\ pc = "handoff"
    /\ FreshBoot
    /\ ~bootVol[1].dir
    /\ nCrash = 0
    /\ nExt = 0

SeededConfig == {"Record", "Logger", "Disclaimer"}
SeededOption == {"Language"}

\* C14: from the start of a boot until the volume is next written from
\* outside, download_data and mapping_data hold what they held when the boot
\* started, every name that config_data or option_data held is still there,
\* and every row under a name the seed does not write has kept its value.
C14_RowsKept ==
    pc \in Running \cup {"raised", "failed", "crashed"} =>
        LET before == bootVol[1].db
        IN /\ db.download = before.download
           /\ db.mapping = before.mapping
           /\ DOMAIN before.config \subseteq DOMAIN db.config
           /\ DOMAIN before.option \subseteq DOMAIN db.option
           /\ \A n \in DOMAIN before.config \ SeededConfig :
                 db.config[n] = before.config[n]
           /\ \A n \in DOMAIN before.option \ SeededOption :
                 db.option[n] = before.option[n]

\* a boot of a store holding a download record and a config row the seed
\* does not name has committed
C14_Witness ==
    /\ pc = "handoff"
    /\ bootVol[1].db.download = {"r1"}
    /\ "Other" \in DOMAIN bootVol[1].db.config
    /\ db.config["Disclaimer"] = 1

\* The number HEALTHCHECK_TIMEOUT holds, in tenths of a second; <<>> when it
\* is unset or is not a number.
TimeoutOverride ==
    IF env.HEALTHCHECK_TIMEOUT = Unset THEN <<>>
    ELSE FloatOf(env.HEALTHCHECK_TIMEOUT[1])

\* C15: a probe started by main never ends with an error and exits with 0 or
\* 1; the timeout it hands to check is the override when the override is a
\* number, and 2 seconds when the override is unset or is not a number, with
\* the URL it builds when the override is unset.
C15_TimeoutFallback ==
    \A p \in Probes :
        probe[p].via = "main" =>
            /\ ~probe[p].raised
            /\ probe[p].pc = "exited" => probe[p].code \in {0, 1}
            /\ probe[p].url = HealthUrl(IF env.PORT = Unset THEN "5555"
                                        ELSE env.PORT[1])
            /\ probe[p].timeout = IF TimeoutOverride = <<>> THEN DEFAULT_TIMEOUT
                                  ELSE TimeoutOverride[1]

\* with HEALTHCHECK_TIMEOUT=abc a probe has sent its request with the
\* default timeout and exited 0
C15_Witness ==
    \E p \in Probes :
        /\ env.HEALTHCHECK_TIMEOUT = <<"abc">>
        /\ probe[p].pc = "exited"
        /\ probe[p].code = 0
        /\ probe[p].timeout = DEFAULT_TIMEOUT
        /\ probe[p].requests = 1

\* The port PORT asks for: its number when it holds one, the default when it
\* is unset or is not a number.
PortWanted ==
    IF env.PORT = Unset \/ IntOf(env.PORT[1]) = <<>> THEN SERVER_PORT
    ELSE IntOf(env.PORT[1])[1]

\* C16: whatever PORT holds, the service does not fail to start, it listens
\* on the port PORT asks for (the default when PORT is unset or is not a
\* number), and every probe started by main targets that same port.
C16_SamePort ==
    /\ service.state # "failed"
    /\ service.state = "running" => service.port = PortWanted
    /\ \A p \in Probes :
          probe[p].via = "main" => PortOf(probe[p].url) = <<PortWanted>>

\* The probe's states: idle, requesting ("check", "urlopen"), the verdict,
\* and the exit.
ProbeOrder ==
    {<<"idle", "check">>, <<"check", "urlopen">>,
     <<"urlopen", "healthy">>, <<"urlopen", "unhealthy">>,
     <<"healthy", "exited">>, <<"unhealthy", "exited">>}

\* C17: every probe goes from idle to requesting to one verdict and exits
\* with it; it sends at most one GET; a request the server does not answer
\* within the timeout gives exit code 1; and every probe exits.
C17_SingleRequest ==
    /\ [][\A p \in Probes :
            probe[p].pc' # probe[p].pc =>
                <<probe[p].pc, probe[p].pc'>> \in ProbeOrder]_vars
    /\ [](\A p \in Probes : probe[p].requests <= 1)
    /\ [](\A p \in Probes :
            (probe[p].pc = "exited" /\ probe[p].first = NetError("timeout"))
                => probe[p].code = 1)
    /\ \A p \in Probes : <>(probe[p].pc = "exited")

\* config_data and option_data as the store shows them
Rows(d) == [config |-> d.config, option |-> d.option]

\* C18: from the start of a boot to its end, the store shows config_data and
\* option_data either as the boot found them or with all five seed
\* statements applied, never anything between; a boot that fails or dies
\* while seeding or before the commit leaves the rows as it found them, and
\* the four tables of the script in place.
C18_SeedAtomic ==
    /\ [](pc \in Running \cup {"raised", "failed", "crashed"} =>
            \/ Rows(db) = Rows(bootVol[1].db)
            \/ Rows(db) = SeedFrom(1, Rows(bootVol[1].db)))
    /\ [][(nCrash' # nCrash /\ pc \in {"db_seed", "db_commit"}) =>
            /\ Rows(db)' = Rows(bootVol[1].db)
            /\ db.tables' = TableNames]_vars

\* a boot of a volume without a store failed or died after the script had
\* created the four tables and before the commit: no seed row is visible
C18_Witness ==
    /\ pc \in {"failed", "crashed"}
    /\ db.tables = TableNames
    /\ bootVol[1].db.tables # TableNames
    /\ db.config = EmptyTable
    /\ db.option = EmptyTable

\* Statuses that end the request with verdict 1: not 200 and not a redirect
\* the opener follows.
FinalStatuses == {Status(c) : c \in {204, 404, 500}} \cup {Redirect(302, "")}

\* C19: a step of a probe changes that probe's record and nothing else: not
\* the volume, not the bootstrap, not the service, not another probe.  The
\* boot that runs while probes run ends in the volume it would end in alone.
\* A probe's exit code follows from its own URL, timeout and the answers it
\* got: 1 without a request only if its own request cannot be sent, 0 for a
\* first answer 200, 1 for a first answer that is an error or a final status.
C19_ProbeIsolated ==
    /\ [][\A p \in Probes :
            probe[p]' # probe[p] =>
                /\ \A q \in Probes \ {p} : probe[q]' = probe[q]
                /\ UNCHANGED <<bootVars, env, service>>]_vars
    /\ [](pc = "handoff" => Vol = BootResult(bootVol[1]))
    /\ [](\A p \in Probes :
            probe[p].pc = "exited" =>
                /\ probe[p].requests = 0 => CannotSend(probe[p])
                /\ probe[p].first = Status(200) => probe[p].code = 0
                /\ (probe[p].first.kind = "error" \/ probe[p].first \in FinalStatuses)
                      => probe[p].code = 1
                /\ probe[p].code \in {0, 1})

\* a probe that got no connection, before the service listened, exited 1,
\* another exited 0, and the store is the one the boot leaves when it runs
\* alone
C19_Witness ==
    /\ pc = "service"
    /\ probe[1].pc = "exited"
    /\ probe[1].first = NetError("refused")
    /\ probe[1].code = 1
    /\ probe[2].pc = "exited"
    /\ probe[2].code = 0
    /\ db = BootResult(bootVol[1]).db

\* C20: every row of config_data, committed or written in the open
\* transaction, holds 0 or 1, after any boots and external writes; and the
\* script leaves every table that exists as it is, rows included.
C20_ConfigValues ==
    /\ [](\A n \in DOMAIN db.config : db.config[n] \in {0, 1})
    /\ [](\A n \in DOMAIN work.config : work.config[n] \in {0, 1})
    /\ [][pc = "db_script" =>
            /\ db.tables \subseteq db.tables'
            /\ Rows(db)' = Rows(db)
            /\ db.download' = db.download
            /\ db.mapping' = db.mapping]_vars

\* a boot has committed over a store that holds a row written from outside
C20_Witness ==
    /\ pc = "handoff"
    /\ nExt > 0
    /\ "Other" \in DOMAIN db.config
    /\ db.config["Record"] = 0
    /\ db.download = {"r1"}

====
